---------------------------- MODULE Spec2Model ----------------------------
(***************************************************************************)
(* Topograph backend (src-tauri): the dispatcher's shared state            *)
(* (AppState: the grid mutex and the two erosion atomics), its commands,   *)
(* the hydraulic worker thread, and the sculpt brush.                      *)
(*                                                                         *)
(* Specifications:                                                         *)
(*   Spec      the concurrency harness.  The 512x512 buffer is kept by its *)
(*             shape (width, height, data.len()) and a tag naming what ran *)
(*             over it last: "zeros" (Heightmap::new), "edited" (a         *)
(*             command wrote it), "eroded" (hydraulic droplets).  Every    *)
(*             lock, atomic and thread step is a step of the model.        *)
(*   BrushSpec sculpt::apply_brush on small concrete grids.                *)
(*   PackSpec  ipc::pack_region on rectangles inside a concrete grid.      *)
(*   ThermalSpec  thermal::erode on small concrete grids.                  *)
(*   CommandSpec  set_heightmap and load_project on a concrete grid.       *)
(*                                                                         *)
(* Numbers: stroke coordinates are multiples of 1/2 (CoordDen), heights    *)
(* are multiples of 1/Scale; f32 rounding is not modelled.  u32            *)
(* arithmetic wraps modulo 2^32 (release build) or panics (overflow        *)
(* checks); both outcomes are kept where the code can overflow.            *)
(***************************************************************************)
EXTENDS Integers, Sequences, FiniteSets, TLC

VARIABLES
    erosion_running,  \* AppState.erosion_running (AtomicBool)
    erosion_abort,    \* AppState.erosion_abort (AtomicBool)
    mutex,            \* AppState.heightmap's Mutex: holder and poison flag
    hm,               \* the Heightmap behind the mutex: shape and content tag
    pc,               \* each dispatch thread's position in its command
    worker,           \* the hydraulic worker threads
    grid,             \* BrushSpec: a concrete Heightmap
    before,           \* BrushSpec: grid.data before the last stroke
    stroke,           \* BrushSpec: the last BrushStroke applied
    rect,             \* BrushSpec: the rectangle the last apply_brush returned
    brushDone,        \* BrushSpec: apply_brush has returned
    envelope,         \* BrushSpec: the response packed for the frontend
    thermal,          \* ThermalSpec: the ThermalParams and whether erode returned
    call              \* CommandSpec: a command's argument, the grid it found
                      \* and its result

harnessVars == <<erosion_running, erosion_abort, mutex, hm, pc, worker>>
brushVars == <<grid, before, stroke, rect, brushDone, envelope, thermal, call>>
vars == <<erosion_running, erosion_abort, mutex, hm, pc, worker,
          grid, before, stroke, rect, brushDone, envelope, thermal, call>>

---------------------------------------------------------------------------
(* Bounds of the model *)

NumCallers == 2
MaxWorkers == 2
MaxDroplets == 1001

(* Program constants *)

StartupDim == 512
PollEvery == 1000
FORMAT_VERSION == 1

Callers == 1..NumCallers
Workers == 1..MaxWorkers

Free == <<"free", 0>>
CallerId(c) == <<"caller", c>>
WorkerId(k) == <<"worker", k>>

Min(a, b) == IF a < b THEN a ELSE b
Max(a, b) == IF a > b THEN a ELSE b

---------------------------------------------------------------------------
(* Heightmap shape *)

\* Heightmap::new: width*height zeros.
HeightmapNew(w, h) ==
    [width |-> w, height |-> h, len |-> w * h, content |-> "zeros"]

\* An index y*width+x the buffer does not hold: Vec indexing panics.
Degenerate(m) == m.width = 0 \/ m.height = 0 \/ m.len < m.width * m.height

Idle == [at |-> "idle", cmd |-> "", w |-> 0, h |-> 0]
At(c, a) == pc[c].at = a
Goto(c, a) == pc' = [pc EXCEPT ![c] = [Idle EXCEPT !.at = a]]
GotoCmd(c, a, cmd) == pc' = [pc EXCEPT ![c] = [at |-> a, cmd |-> cmd, w |-> 0, h |-> 0]]

\* A worker slot: at is the thread's position ("none": no thread), i the
\* droplet index, n num_droplets, sent the progress values sent so far.
\* abortBlock is a history value: the 1000-droplet block (i div 1000) the loop
\* was in when the abort flag was first set during it, -1 while it was not.
\* sendFailed: the channel.send just made returned Err (the Result lives
\* until the statement ends, that is until the worker's next step).
\* pendingAbort is a history value, kept until the worker's next poll:
\* abort_erosion ran since the job's swap (or since the worker's last poll).
NoWorker ==
    [at |-> "none", i |-> 0, n |-> 0, sent |-> <<>>, abortBlock |-> -1,
     sendFailed |-> FALSE, pendingAbort |-> FALSE]

---------------------------------------------------------------------------
(* sculpt.rs: the brush's geometry, in half-pixel units (x2 = 2*x) *)

CoordDen == 2

CeilDiv(a, b) == -((-a) \div b)

\* `as u32` of a float: negative values saturate to 0 (the upper saturation
\* at 2^32-1 lies beyond every coordinate of the model).
SatU32(v) == IF v < 0 THEN 0 ELSE v

\* f32::round: half away from zero.
RoundHalf(a2) ==
    IF a2 >= 0 THEN (a2 + 1) \div CoordDen ELSE -((1 - a2) \div CoordDen)

\* width - 1 in u32: for width = 0 it wraps to 2^32-1, and min(v, 2^32-1) = v.
MinDimMinus1(v, dim) == IF dim = 0 THEN v ELSE Min(v, dim - 1)

BrushX0(s) == SatU32(Max((s.x2 - s.r2) \div CoordDen, 0))
BrushY0(s) == SatU32(Max((s.y2 - s.r2) \div CoordDen, 0))
BrushX1(m, s) == MinDimMinus1(SatU32(CeilDiv(s.x2 + s.r2, CoordDen)), m.width)
BrushY1(m, s) == MinDimMinus1(SatU32(CeilDiv(s.y2 + s.r2, CoordDen)), m.height)

BrushBoxEmpty(m, s) == BrushX0(s) > BrushX1(m, s) \/ BrushY0(s) > BrushY1(m, s)

\* dist_sq and r_sq, both times CoordDen^2.
DistSq4(s, px, py) ==
    (CoordDen * px - s.x2) * (CoordDen * px - s.x2)
    + (CoordDen * py - s.y2) * (CoordDen * py - s.y2)
RSq4(s) == s.r2 * s.r2

\* The cells the loop visits and does not skip (dist_sq <= r_sq).
BrushCells(m, s) ==
    IF BrushBoxEmpty(m, s) THEN {}
    ELSE {c \in (BrushX0(s)..BrushX1(m, s)) \X (BrushY0(s)..BrushY1(m, s)) :
            DistSq4(s, c[1], c[2]) <= RSq4(s)}

\* Faulty variant of BrushRect: the width and height miss the "+ 1".
BrushRect_OffByOne(m, s) ==
    IF BrushBoxEmpty(m, s) THEN <<0, 0, 0, 0>>
    ELSE <<BrushX0(s), BrushY0(s),
           BrushX1(m, s) - BrushX0(s), BrushY1(m, s) - BrushY0(s)>>

\* The rectangle apply_brush returns: (x, y, w, h).
BrushRect(m, s) ==
    IF BrushBoxEmpty(m, s) THEN <<0, 0, 0, 0>>
    ELSE <<BrushX0(s), BrushY0(s),
           BrushX1(m, s) - BrushX0(s) + 1, BrushY1(m, s) - BrushY0(s) + 1>>

---------------------------------------------------------------------------
(* sculpt.rs: the brush's values.  Heights are integers in units of 1/Scale,
   strength is in units of 1/StrengthDen, the falloff exp(-3t) is read from a
   table in units of 1/FalloffDen at t rounded down to a multiple of 1/16. *)

Scale == 1000
StrengthDen == 10
FalloffDen == 1000
InfluenceDen == StrengthDen * FalloffDen

\* The f32 NaN: no height of the model has this value.
NaN == -(Scale * Scale)
IsNaN(v) == v = NaN

\* a / b rounded to the nearest integer, halves away from zero (b > 0).
RoundDiv(a, b) ==
    IF a >= 0 THEN (2 * a + b) \div (2 * b) ELSE -((b - 2 * a) \div (2 * b))

FalloffTable ==
    <<1000, 829, 687, 570, 472, 392, 325, 269, 223, 185, 153, 127, 105, 87,
      72, 60, 50>>

\* (-t * 3.0).exp() with t = dist_sq / r_sq; 0/0 is NaN.
Falloff(s, px, py) ==
    IF RSq4(s) = 0 THEN NaN
    ELSE FalloffTable[(16 * DistSq4(s, px, py)) \div RSq4(s) + 1]

\* stroke.strength * falloff, in units of 1/InfluenceDen.
Influence(s, px, py) ==
    IF IsNaN(Falloff(s, px, py)) THEN NaN ELSE s.strength * Falloff(s, px, py)

\* Heightmap::get on a concrete grid (data is 1-indexed here).
Get(m, x, y) == m.data[y * m.width + x + 1]

\* sample_avg: the mean of the cell and its in-grid 4-neighbours.
sample_avg(data, w, h, x, y) ==
    LET idx(a, b) == data[b * w + a + 1]
        taps == <<idx(x, y)>>
                \o (IF x > 0 THEN <<idx(x - 1, y)>> ELSE <<>>)
                \o (IF x < w - 1 THEN <<idx(x + 1, y)>> ELSE <<>>)
                \o (IF y > 0 THEN <<idx(x, y - 1)>> ELSE <<>>)
                \o (IF y < h - 1 THEN <<idx(x, y + 1)>> ELSE <<>>)
        Sum[k \in 0..Len(taps)] == IF k = 0 THEN 0 ELSE Sum[k - 1] + taps[k]
    IN  IF \E k \in 1..Len(taps) : IsNaN(taps[k]) THEN NaN
        ELSE RoundDiv(Sum[Len(taps)], Len(taps))

\* Faulty variant of SmoothAverage: the average is taken over the live
\* buffer.
SmoothAverage_Live(data, snap, w, h, x, y) == sample_avg(data, w, h, x, y)

\* avg of the Smooth arm: sample_avg over smooth_snapshot, the clone of the
\* buffer taken before the loop, not over the live buffer data.
SmoothAverage(data, snap, w, h, x, y) == sample_avg(snap, w, h, x, y)

\* f32::clamp(0.0, 1.0): NaN stays NaN.
Clamp01(v) == IF IsNaN(v) THEN NaN ELSE Max(0, Min(Scale, v))

\* Faulty variant of NewVal: the signs of Raise and Lower are exchanged.
NewVal_SignsSwapped(op, current, infl, target, avg) ==
    IF IsNaN(current) \/ IsNaN(infl) THEN NaN
    ELSE CASE op = "Raise" -> current - RoundDiv(infl * 20, InfluenceDen)
           [] op = "Lower" -> current + RoundDiv(infl * 20, InfluenceDen)
           [] op = "Flatten" ->
                IF IsNaN(target) THEN NaN
                ELSE current + RoundDiv((target - current) * infl, InfluenceDen)
           [] op = "Smooth" ->
                IF IsNaN(avg) THEN NaN
                ELSE current + RoundDiv((avg - current) * infl, InfluenceDen)

\* new_val of one cell, before the clamp.
NewVal(op, current, infl, target, avg) ==
    IF IsNaN(current) \/ IsNaN(infl) THEN NaN
    ELSE CASE op = "Raise" -> current + RoundDiv(infl * 20, InfluenceDen)
           [] op = "Lower" -> current - RoundDiv(infl * 20, InfluenceDen)
           [] op = "Flatten" ->
                IF IsNaN(target) THEN NaN
                ELSE current + RoundDiv((target - current) * infl, InfluenceDen)
           [] op = "Smooth" ->
                IF IsNaN(avg) THEN NaN
                ELSE current + RoundDiv((avg - current) * infl, InfluenceDen)

\* The buffer index flatten_target reads: the rounded centre, clamped into
\* 0..=width-1 and 0..=height-1.
FlattenIndex(m, s) ==
    MinDimMinus1(SatU32(RoundHalf(s.y2)), m.height) * m.width
    + MinDimMinus1(SatU32(RoundHalf(s.x2)), m.width) + 1

\* Faulty variant of FlattenTarget: the target is read at the corner of the
\* bounding box, not at the centre.
FlattenTarget_AtCorner(m, s) == m.data[BrushY0(s) * m.width + BrushX0(s) + 1]

\* flatten_target: the height at the rounded centre, clamped into the grid.
FlattenTarget(m, s) == m.data[FlattenIndex(m, s)]

\* apply_brush panics: hm.width - 1 or hm.height - 1 underflows under overflow
\* checks, or hm.get indexes past the end of the buffer (for the flatten
\* target, or for the first cell inside the radius).
BrushPanics(m, s, overflowChecks) ==
    \/ (m.width = 0 \/ m.height = 0) /\ overflowChecks
    \/ /\ ~BrushBoxEmpty(m, s)
       /\ \/ s.op = "Flatten" /\ FlattenIndex(m, s) > Len(m.data)
          \/ \E c \in BrushCells(m, s) : c[2] * m.width + c[1] + 1 > Len(m.data)

\* The loop over py in y0..=y1, px in x0..=x1, from its k-th cell on: each
\* cell inside the radius reads the live buffer (and, for Smooth, the
\* snapshot) and is written in place.
RECURSIVE BrushLoop(_, _, _, _, _, _)
BrushLoop(data, m, s, target, snap, k) ==
    LET bw == BrushX1(m, s) - BrushX0(s) + 1
        bh == BrushY1(m, s) - BrushY0(s) + 1
        px == BrushX0(s) + (k % bw)
        py == BrushY0(s) + (k \div bw)
        i == py * m.width + px + 1
    IN  IF k >= bw * bh THEN data
        ELSE IF DistSq4(s, px, py) > RSq4(s)
          THEN BrushLoop(data, m, s, target, snap, k + 1)
          ELSE BrushLoop(
                 [data EXCEPT ![i] =
                    Clamp01(NewVal(s.op, data[i], Influence(s, px, py), target,
                        IF s.op = "Smooth"
                          THEN SmoothAverage(data, snap, m.width, m.height, px, py)
                          ELSE 0))],
                 m, s, target, snap, k + 1)

\* apply_brush: the grid after the stroke and the rectangle returned.
apply_brush(m, s) ==
    IF BrushBoxEmpty(m, s) THEN [hm |-> m, rect |-> <<0, 0, 0, 0>>]
    ELSE [hm |-> [m EXCEPT !.data =
                    BrushLoop(m.data, m, s,
                              IF s.op = "Flatten" THEN FlattenTarget(m, s) ELSE 0,
                              m.data, 0)],
          rect |-> BrushRect(m, s)]

---------------------------------------------------------------------------
(* erosion/thermal.rs.  talus is in units of 1/Scale, transfer_rate in units
   of 1/RateDen; cell_size = 1/w, so slope = diff * w. *)

RateDen == 10

NoThermal == [iterations |-> 0, talus |-> 0, rate |-> 0, done |-> FALSE]

\* The four neighbour offsets, in the order of the code.
Neighbors == <<<<-1, 0>>, <<1, 0>>, <<0, -1>>, <<0, 1>>>>

\* A function on 1..n as the Vec it stands for, its elements computed once.
AsVec(f) == f \o <<>>

SeqSum(q) ==
    LET S[k \in 0..Len(q)] == IF k = 0 THEN 0 ELSE S[k - 1] + q[k]
    IN  S[Len(q)]

\* max_diff: starts at 0.0 and takes every larger diff.
SeqMax(q) ==
    LET M[k \in 0..Len(q)] == IF k = 0 THEN 0 ELSE Max(M[k - 1], q[k])
    IN  M[Len(q)]

\* The buffer indices of the neighbours of cell (x, y) that receive
\* material: in the grid and with slope > talus, read from the snapshot.
LowerNeighbors(snap, w, h, p, x, y) ==
    LET center == snap[y * w + x + 1]
        Lower(d) ==
            /\ x + d[1] >= 0 /\ x + d[1] < w /\ y + d[2] >= 0 /\ y + d[2] < h
            /\ (center - snap[(y + d[2]) * w + (x + d[1]) + 1]) * w > p.talus
        picked == SelectSeq(Neighbors, Lower)
    IN  AsVec([i \in 1..Len(picked) |->
                   (y + picked[i][2]) * w + (x + picked[i][1]) + 1])

\* transfer = excess * diff / total_diff with
\* excess = (max_diff - talus * cell_size) * transfer_rate.
Transfer(p, w, diff, maxDiff, totalDiff) ==
    RoundDiv((maxDiff * w - p.talus) * p.rate * diff, w * RateDen * totalDiff)

\* Faulty variant of ThermalCell: the shares are added to the neighbours but
\* not taken from the centre.
ThermalCell_NoSubtract(data, snap, w, h, p, k) ==
    LET x == k % w
        y == k \div w
        center == snap[k + 1]
        nb == LowerNeighbors(snap, w, h, p, x, y)
        diffs == AsVec([i \in 1..Len(nb) |-> center - snap[nb[i]]])
        shares == AsVec([i \in 1..Len(nb) |->
                     Transfer(p, w, diffs[i], SeqMax(diffs), SeqSum(diffs))])
    IN  IF Len(nb) = 0 THEN data
        ELSE AsVec([j \in 1..Len(data) |->
                data[j]
                + SeqSum([i \in 1..Len(nb) |-> IF nb[i] = j THEN shares[i] ELSE 0])])

\* The body of the loops over y and x for the k-th cell: every share is
\* subtracted from the centre and added to its neighbour, in place.
ThermalCell(data, snap, w, h, p, k) ==
    LET x == k % w
        y == k \div w
        center == snap[k + 1]
        nb == LowerNeighbors(snap, w, h, p, x, y)
        diffs == AsVec([i \in 1..Len(nb) |-> center - snap[nb[i]]])
        shares == AsVec([i \in 1..Len(nb) |->
                     Transfer(p, w, diffs[i], SeqMax(diffs), SeqSum(diffs))])
    IN  IF Len(nb) = 0 THEN data
        ELSE AsVec([j \in 1..Len(data) |->
                data[j]
                - (IF j = k + 1 THEN SeqSum(shares) ELSE 0)
                + SeqSum([i \in 1..Len(nb) |-> IF nb[i] = j THEN shares[i] ELSE 0])])

\* One iteration from its k-th cell on, against the snapshot taken at its
\* start.
RECURSIVE ThermalSweep(_, _, _, _, _, _)
ThermalSweep(data, snap, w, h, p, k) ==
    IF k >= w * h THEN data
    ELSE ThermalSweep(ThermalCell(data, snap, w, h, p, k), snap, w, h, p, k + 1)

\* thermal::erode: n iterations, each on a fresh snapshot.
RECURSIVE ThermalErode(_, _, _, _, _)
ThermalErode(data, w, h, p, n) ==
    IF n = 0 THEN data
    ELSE ThermalErode(ThermalSweep(data, data, w, h, p, 0), w, h, p, n - 1)

---------------------------------------------------------------------------
(* ipc.rs: the binary envelopes.  The header is kept byte by byte; an f32 of
   the payload is kept as one 4-byte word. *)

IPC_VERSION == 1
MSG_FULL == 0
MSG_REGION == 1

\* u32::to_le_bytes
LE32(v) ==
    <<v % 256, (v \div 256) % 256, (v \div 65536) % 256, (v \div 16777216) % 256>>

\* No response has been packed.
NoEnvelope == [status |-> "none", header |-> <<>>, words |-> <<>>]

\* A panic unwound the command before it answered.
Panicked == [status |-> "panic", header |-> <<>>, words |-> <<>>]

\* pack_full: 16 header bytes, then every f32 of the buffer.
pack_full(m) ==
    [status |-> "sent",
     header |-> LE32(IPC_VERSION) \o <<MSG_FULL>> \o <<0, 0, 0>>
                \o LE32(m.width) \o LE32(m.height),
     words |-> m.data]

\* The buffer index Heightmap::get reads for the k-th value of a region.
RegionIndex(m, rx, rw, ry, k) ==
    (ry + ((k - 1) \div rw)) * m.width + (rx + ((k - 1) % rw)) + 1

\* hm.get inside pack_region indexes past the end of the buffer.
PackRegionPanics(m, rx, ry, rw, rh) ==
    \E k \in 1..(rw * rh) : RegionIndex(m, rx, rw, ry, k) > Len(m.data)

\* Faulty variant of pack_region: the loops over x and y are exchanged.
pack_region_ColumnMajor(m, rx, ry, rw, rh) ==
    [status |-> "sent",
     header |-> LE32(IPC_VERSION) \o <<MSG_REGION>> \o <<0, 0, 0>>
                \o LE32(rx) \o LE32(ry) \o LE32(rw) \o LE32(rh),
     words |-> [k \in 1..(rw * rh) |->
                  m.data[(ry + ((k - 1) % rh)) * m.width + (rx + ((k - 1) \div rh)) + 1]]]

\* pack_region: 24 header bytes, then hm.get(x, y) for y in ry..ry+rh, x in
\* rx..rx+rw.
pack_region(m, rx, ry, rw, rh) ==
    IF PackRegionPanics(m, rx, ry, rw, rh) THEN Panicked
    ELSE [status |-> "sent",
          header |-> LE32(IPC_VERSION) \o <<MSG_REGION>> \o <<0, 0, 0>>
                     \o LE32(rx) \o LE32(ry) \o LE32(rw) \o LE32(rh),
          words |-> [k \in 1..(rw * rh) |-> m.data[RegionIndex(m, rx, rw, ry, k)]]]

---------------------------------------------------------------------------
(* The grid mutex *)

MutexFree == mutex.holder = Free
Acquire(t) == mutex' = [mutex EXCEPT !.holder = t]
\* The guard goes out of scope.
Release == mutex' = [mutex EXCEPT !.holder = Free]
\* The guard is dropped while its thread panics: the mutex is poisoned.
ReleasePoisoned == mutex' = [holder |-> Free, poisoned |-> TRUE]

Holds(c) == mutex.holder = CallerId(c)
InCrit(c, cmd) == pc[c].at = "crit" /\ pc[c].cmd = cmd

\* Faulty variant of LockAt: the lock is taken without waiting for its holder.
LockAt_NoWait(c, from, cmd) ==
    /\ At(c, from)
    /\ IF mutex.poisoned
         THEN Goto(c, "idle") /\ UNCHANGED mutex
         ELSE /\ Acquire(CallerId(c))
              /\ pc' = [pc EXCEPT ![c].at = "crit", ![c].cmd = cmd]

\* state.heightmap.lock().unwrap() of command cmd, reached at position from:
\* blocks while the mutex is held; panics (the command ends) when it is
\* poisoned.
LockAt(c, from, cmd) ==
    /\ At(c, from)
    /\ MutexFree
    /\ IF mutex.poisoned
         THEN Goto(c, "idle") /\ UNCHANGED mutex
         ELSE /\ Acquire(CallerId(c))
              /\ pc' = [pc EXCEPT ![c].at = "crit", ![c].cmd = cmd]

\* The lock at the head of a command.
LockMutex(c, cmd) == LockAt(c, "idle", cmd)

\* The command returns and its guard is dropped.
Unlock(c) == Release /\ Goto(c, "idle")
\* The command panics under the lock.
PanicLocked(c) == ReleasePoisoned /\ Goto(c, "idle")

Flags == <<erosion_running, erosion_abort>>

---------------------------------------------------------------------------
(* commands.rs: the grid commands *)

get_heightmap(c) ==
    /\ \/ LockMutex(c, "get_heightmap")
       \/ InCrit(c, "get_heightmap") /\ Unlock(c)
    /\ UNCHANGED <<Flags, hm, worker, brushVars>>

HarnessStrokes ==
    { [x2 |-> 20, y2 |-> 20, r2 |-> 4, strength |-> 1, op |-> "Raise"],
      [x2 |-> 21, y2 |-> 21, r2 |-> 0, strength |-> 1, op |-> "Raise"],
      [x2 |-> 4000, y2 |-> 20, r2 |-> 4, strength |-> 1, op |-> "Raise"] }

\* What apply_brush_stroke does to a buffer of shape m: "panic" (hm.width - 1
\* under overflow checks, or an index the buffer does not hold, in
\* apply_brush or in pack_region), "full" (empty rectangle) or "region".
BrushStrokeOutcome(m, s, overflowChecks) ==
    IF (m.width = 0 \/ m.height = 0) /\ overflowChecks THEN "panic"
    ELSE IF BrushBoxEmpty(m, s) THEN "full"
    ELSE IF Degenerate(m) THEN "panic"
    ELSE "region"

apply_brush_stroke(c) ==
    /\ \/ LockMutex(c, "apply_brush_stroke") /\ UNCHANGED hm
       \/ /\ InCrit(c, "apply_brush_stroke")
          /\ \E s \in HarnessStrokes, overflowChecks \in BOOLEAN :
               LET out == BrushStrokeOutcome(hm, s, overflowChecks) IN
               IF out = "panic" THEN PanicLocked(c) /\ UNCHANGED hm
               ELSE /\ Unlock(c)
                    /\ hm' = IF out = "region" /\ BrushCells(hm, s) # {}
                               THEN [hm EXCEPT !.content = "edited"]
                               ELSE hm
    /\ UNCHANGED <<Flags, worker, brushVars>>

\* fill_heightmap sets every cell (none when a dimension is 0).
generate_terrain(c) ==
    /\ \/ LockMutex(c, "generate_terrain") /\ UNCHANGED hm
       \/ /\ InCrit(c, "generate_terrain")
          /\ Unlock(c)
          /\ hm' = IF hm.width = 0 \/ hm.height = 0 THEN hm
                   ELSE [hm EXCEPT !.content = "edited"]
    /\ UNCHANGED <<Flags, worker, brushVars>>

\* thermal::erode moves material or, on a stable grid, nothing.
run_thermal_erosion(c) ==
    /\ \/ LockMutex(c, "run_thermal_erosion") /\ UNCHANGED hm
       \/ /\ InCrit(c, "run_thermal_erosion")
          /\ Unlock(c)
          /\ \E moved \in BOOLEAN :
               hm' = IF moved /\ ~Degenerate(hm)
                       THEN [hm EXCEPT !.content = "edited"] ELSE hm
    /\ UNCHANGED <<Flags, worker, brushVars>>

\* The lengths of the vector handed to set_heightmap.
SetLengths(m) == {m.width * m.height, m.width * m.height + 1}

set_heightmap(c) ==
    /\ \/ LockMutex(c, "set_heightmap") /\ UNCHANGED hm
       \/ /\ InCrit(c, "set_heightmap")
          /\ \E n \in SetLengths(hm) :
               IF n # hm.width * hm.height THEN Unlock(c) /\ UNCHANGED hm
               ELSE IF n # hm.len THEN PanicLocked(c) /\ UNCHANGED hm
               ELSE Unlock(c) /\ hm' = [hm EXCEPT !.content = "edited"]
    /\ UNCHANGED <<Flags, worker, brushVars>>

save_project(c) ==
    /\ \/ LockMutex(c, "save_project")
       \/ InCrit(c, "save_project") /\ Unlock(c)
    /\ UNCHANGED <<Flags, hm, worker, brushVars>>

export_heightmap(c) ==
    /\ \/ LockMutex(c, "export_heightmap")
       \/ InCrit(c, "export_heightmap") /\ Unlock(c)
    /\ UNCHANGED <<Flags, hm, worker, brushVars>>

\* generate_controlnet_texture clones the buffer and drops the guard before
\* the subprocess runs.
generate_controlnet_texture(c) ==
    /\ \/ LockMutex(c, "generate_controlnet_texture")
       \/ InCrit(c, "generate_controlnet_texture") /\ Unlock(c)
    /\ UNCHANGED <<Flags, hm, worker, brushVars>>

\* apply_heightmap_image: the image is decoded before the lock is taken; under
\* the lock a mask that fails to decode returns Err, else the buffer is written.
apply_heightmap_image(c) ==
    /\ \/ LockMutex(c, "apply_heightmap_image") /\ UNCHANGED hm
       \/ /\ InCrit(c, "apply_heightmap_image")
          /\ Unlock(c)
          /\ \E maskOk \in BOOLEAN :
               hm' = IF maskOk /\ hm.len > 0
                       THEN [hm EXCEPT !.content = "edited"] ELSE hm
    /\ UNCHANGED <<Flags, worker, brushVars>>

---------------------------------------------------------------------------
(* project.rs / commands.rs: load_project *)

ArchiveDims == {0, 128}

\* The archives handed to load_project: the manifest's formatVersion, width
\* and height, whether the entries exist, and heightmap.bin's size in bytes.
Archives ==
    { [hasManifest |-> m, validManifest |-> v, formatVersion |-> f,
       width |-> w, height |-> h, hasBin |-> b,
       binBytes |-> w * h * 4 + e, pattern |-> "zero"] :
        m \in BOOLEAN, v \in BOOLEAN,
        f \in {FORMAT_VERSION, FORMAT_VERSION + 1},
        w \in ArchiveDims, h \in ArchiveDims, b \in BOOLEAN, e \in {0, 4} }

\* u32 multiplication, by 16-bit halves: the wrapped product of a release
\* build, and whether a build with overflow checks panics instead.
Half == 65536
MulCarry(a, b) ==
    ((a \div Half) * (b % Half)) + ((a % Half) * (b \div Half))
        + (((a % Half) * (b % Half)) \div Half)
MulU32(a, b) ==
    (((a % Half) * (b % Half)) % Half) + Half * (MulCarry(a, b) % Half)
MulOverflows(a, b) ==
    ((a \div Half) * (b \div Half)) > 0 \/ MulCarry(a, b) >= Half

\* The outcome of project::load_project in the order of its checks: "" for
\* Ok, the Err's text, or "panic" (manifest.width * manifest.height
\* overflowing under overflow checks).
LoadError(a, overflowChecks) ==
    IF ~a.hasManifest THEN "Missing manifest.json in .topo file"
    ELSE IF ~a.validManifest THEN "Invalid manifest"
    ELSE IF a.formatVersion > FORMAT_VERSION THEN "Project version is newer"
    ELSE IF ~a.hasBin THEN "Missing heightmap.bin in .topo file"
    ELSE IF overflowChecks /\ MulOverflows(a.width, a.height) THEN "panic"
    ELSE IF a.binBytes # MulU32(a.width, a.height) * 4
         THEN "Heightmap size mismatch"
    ELSE ""

\* project::load_project returns Ok (no archive of the harness overflows).
LoadOk(a) == LoadError(a, FALSE) = ""

\* commands::load_project: the archive is read first (no shared state is
\* touched, so the read is one step with what follows it): an Err returns at
\* once; an Ok result takes the lock, and then the whole Heightmap is replaced.
load_project(c) ==
    /\ \/ /\ At(c, "idle")
          /\ {a \in Archives : ~LoadOk(a)} # {}
          /\ UNCHANGED <<mutex, pc, hm>>
       \/ /\ At(c, "idle")
          /\ MutexFree
          /\ \E a \in {b \in Archives : LoadOk(b)} :
               IF mutex.poisoned THEN UNCHANGED <<mutex, pc>>
               ELSE /\ Acquire(CallerId(c))
                    /\ pc' = [pc EXCEPT ![c] =
                         [at |-> "crit", cmd |-> "load_project",
                          w |-> a.width, h |-> a.height]]
          /\ UNCHANGED hm
       \/ /\ InCrit(c, "load_project")
          /\ hm' = [width |-> pc[c].w, height |-> pc[c].h,
                    len |-> pc[c].w * pc[c].h, content |-> "edited"]
          /\ Unlock(c)
    /\ UNCHANGED <<Flags, worker, brushVars>>

---------------------------------------------------------------------------
(* commands.rs: run_depth_estimation *)

\* The dimensions are read under the lock and the lock is dropped; the
\* estimator runs unlocked and answers Err or width*height values; the lock
\* is taken again, the length is compared with the buffer held then, and the
\* buffer is written (with a mask: unless the mask fails to decode).
run_depth_estimation(c) ==
    /\ \/ LockMutex(c, "run_depth_estimation") /\ UNCHANGED hm
       \/ /\ InCrit(c, "run_depth_estimation")
          /\ Release
          /\ pc' = [pc EXCEPT ![c] = [at |-> "estimating", cmd |-> "run_depth_estimation",
                                      w |-> hm.width, h |-> hm.height]]
          /\ UNCHANGED hm
       \/ At(c, "estimating") /\ Goto(c, "idle") /\ UNCHANGED <<mutex, hm>>
       \/ LockAt(c, "estimating", "depth_blend") /\ UNCHANGED hm
       \/ /\ InCrit(c, "depth_blend")
          /\ Unlock(c)
          /\ \E maskOk \in BOOLEAN :
               hm' = IF pc[c].w * pc[c].h = hm.len /\ maskOk /\ hm.len > 0
                       THEN [hm EXCEPT !.content = "edited"] ELSE hm
    /\ UNCHANGED <<Flags, worker, brushVars>>

---------------------------------------------------------------------------
(* commands.rs: run_hydraulic_erosion and abort_erosion *)

DropletCounts == {0, MaxDroplets}

\* The position of a caller whose swap found running = false, with the two
\* history values of its job (w: the abort flag was true at the swap, h:
\* abort_erosion ran since the swap).
StartedAt(a, stale, pending) ==
    [at |-> a, cmd |-> "",
     w |-> IF stale THEN 1 ELSE 0, h |-> IF pending THEN 1 ELSE 0]
AfterSwap(c) == pc[c].at \in {"hyd_store", "hyd_spawn"}

\* Faulty variant of SwapRunning: the flag is stored and its old value is not looked at.
SwapRunning_Unchecked(c) ==
    /\ At(c, "hyd_swap")
    /\ erosion_running' = TRUE
    /\ Goto(c, "hyd_store")
    /\ UNCHANGED <<erosion_abort, worker>>

\* Faulty variant of SwapRunning: the abort flag is reset before the old value
\* of running is looked at.
SwapRunning_ResetsAbort(c) ==
    /\ At(c, "hyd_swap")
    /\ erosion_running' = TRUE
    /\ erosion_abort' = FALSE
    /\ IF erosion_running THEN Goto(c, "hyd_err")
       ELSE pc' = [pc EXCEPT ![c] = StartedAt("hyd_store", erosion_abort, FALSE)]
    /\ UNCHANGED worker

\* erosion_running.swap(true, SeqCst): when the old value is true the command
\* is about to return Err("Erosion already running").
SwapRunning(c) ==
    /\ At(c, "hyd_swap")
    /\ erosion_running' = TRUE
    /\ IF erosion_running THEN Goto(c, "hyd_err")
       ELSE pc' = [pc EXCEPT ![c] = StartedAt("hyd_store", erosion_abort, FALSE)]
    /\ UNCHANGED <<erosion_abort, worker>>

\* Faulty variant of StoreAbortFalse: nothing is stored.
StoreAbortFalse_Skipped(c) ==
    /\ At(c, "hyd_store")
    /\ pc' = [pc EXCEPT ![c].at = "hyd_spawn"]
    /\ UNCHANGED <<erosion_abort, erosion_running, worker>>

\* Faulty variant of StoreAbortFalse: false is stored to the wrong flag.
StoreAbortFalse_WrongFlag(c) ==
    /\ At(c, "hyd_store")
    /\ erosion_running' = FALSE
    /\ pc' = [pc EXCEPT ![c].at = "hyd_spawn"]
    /\ UNCHANGED <<erosion_abort, worker>>

\* erosion_abort.store(false, SeqCst)
StoreAbortFalse(c) ==
    /\ At(c, "hyd_store")
    /\ erosion_abort' = FALSE
    /\ pc' = [pc EXCEPT ![c].at = "hyd_spawn"]
    /\ UNCHANGED <<erosion_running, worker>>

\* std::thread::spawn of the worker closure, with the command's params; the
\* command returns Ok(()).
SpawnWorker(c) ==
    /\ At(c, "hyd_spawn")
    /\ \E k \in Workers, n \in DropletCounts :
         /\ worker[k].at = "none"
         /\ \A j \in Workers : j < k => worker[j].at # "none"
         /\ worker' = [worker EXCEPT ![k] =
                         [NoWorker EXCEPT !.at = "spawned", !.n = n,
                                          !.pendingAbort = pc[c].h = 1]]
    /\ Goto(c, "idle")
    /\ UNCHANGED Flags

run_hydraulic_erosion(c) ==
    /\ \/ At(c, "idle") /\ Goto(c, "hyd_swap") /\ UNCHANGED <<Flags, worker>>
       \/ SwapRunning(c)
       \/ StoreAbortFalse(c)
       \/ SpawnWorker(c)
       \/ At(c, "hyd_err") /\ Goto(c, "idle") /\ UNCHANGED <<Flags, worker>>
    /\ UNCHANGED <<mutex, hm, brushVars>>

InLoop(k) == worker[k].at \in {"top", "drop"}

\* Faulty variant of abort_erosion: the command takes the grid lock first.
abort_erosion_Locking(c) ==
    /\ At(c, "idle")
    /\ MutexFree
    /\ erosion_abort' = TRUE
    /\ worker' = [k \in Workers |->
                    LET noted == IF worker[k].at \in {"spawned", "top", "drop"}
                                   THEN [worker[k] EXCEPT !.pendingAbort = TRUE]
                                   ELSE worker[k]
                    IN  IF InLoop(k) /\ worker[k].abortBlock = -1
                          THEN [noted EXCEPT !.abortBlock = worker[k].i \div PollEvery]
                          ELSE noted]
    /\ pc' = [d \in Callers |->
                IF AfterSwap(d) THEN [pc[d] EXCEPT !.h = 1] ELSE pc[d]]
    /\ UNCHANGED <<erosion_running, mutex, hm, brushVars>>

\* erosion_abort.store(true, SeqCst): the whole command.  (The history values
\* are set with it: abortBlock of a worker inside its loop, pendingAbort of
\* every job between its swap and the end of its loop.)
abort_erosion(c) ==
    /\ At(c, "idle")
    /\ erosion_abort' = TRUE
    /\ worker' = [k \in Workers |->
                    LET noted == IF worker[k].at \in {"spawned", "top", "drop"}
                                   THEN [worker[k] EXCEPT !.pendingAbort = TRUE]
                                   ELSE worker[k]
                    IN  IF InLoop(k) /\ worker[k].abortBlock = -1
                          THEN [noted EXCEPT !.abortBlock = worker[k].i \div PollEvery]
                          ELSE noted]
    /\ pc' = [d \in Callers |->
                IF AfterSwap(d) THEN [pc[d] EXCEPT !.h = 1] ELSE pc[d]]
    /\ UNCHANGED <<erosion_running, mutex, hm, brushVars>>

---------------------------------------------------------------------------
(* The worker thread: the closure of run_hydraulic_erosion and
   hydraulic::erode *)

SetWorker(k, w) == worker' = [worker EXCEPT ![k] = w]

\* Progress values are kept as fractions <<numerator, denominator>>.
One == <<1, 1>>

\* The progress callback: let _ = channel.send(progress).  The value is handed
\* to the channel, the send returns Ok or Err, and the result is dropped.
Progress(w, value, ok) ==
    [w EXCEPT !.sent = Append(@, value), !.sendFailed = ~ok]

\* hm.lock().unwrap() in the worker: a poisoned mutex panics the thread,
\* which ends before running.store(false).
WorkerLock(k) ==
    /\ worker[k].at = "spawned"
    /\ MutexFree
    /\ IF mutex.poisoned
         THEN SetWorker(k, NoWorker) /\ UNCHANGED mutex
         ELSE /\ Acquire(WorkerId(k))
              /\ SetWorker(k, [worker[k] EXCEPT !.at = "top",
                      !.abortBlock = IF erosion_abort THEN 0 ELSE -1])
    /\ UNCHANGED <<Flags, hm, pc, brushVars>>

\* The history value of a worker that has just loaded the abort flag.
Polled(w) == [w EXCEPT !.pendingAbort = FALSE]

\* Faulty variant of WorkerPoll: the abort flag is not looked at.
WorkerPoll_NoAbort(k) ==
    /\ worker[k].at = "top"
    /\ worker[k].i < worker[k].n
    /\ worker[k].i % PollEvery = 0
    /\ \E ok \in BOOLEAN :
         SetWorker(k, [Progress(Polled(worker[k]),
                                <<worker[k].i, worker[k].n>>, ok)
                          EXCEPT !.at = "drop"])
    /\ UNCHANGED <<Flags, mutex, hm, pc, brushVars>>

\* Faulty variant of WorkerPoll: a send that fails makes erode return.
WorkerPoll_StopsOnFailedSend(k) ==
    /\ worker[k].at = "top"
    /\ worker[k].i < worker[k].n
    /\ worker[k].i % PollEvery = 0
    /\ IF erosion_abort
         THEN SetWorker(k, [Polled(worker[k]) EXCEPT !.at = "ret"])
         ELSE \E ok \in BOOLEAN :
                SetWorker(k, [Progress(Polled(worker[k]),
                                       <<worker[k].i, worker[k].n>>, ok)
                                 EXCEPT !.at = IF ok THEN "drop" ELSE "ret"])
    /\ UNCHANGED <<Flags, mutex, hm, pc, brushVars>>

\* The head of iteration i when i % 1000 == 0: the abort flag is loaded and
\* either erode returns or progress(i / num_droplets) is sent.
WorkerPoll(k) ==
    /\ worker[k].at = "top"
    /\ worker[k].i < worker[k].n
    /\ worker[k].i % PollEvery = 0
    /\ IF erosion_abort
         THEN SetWorker(k, [Polled(worker[k]) EXCEPT !.at = "ret"])
         ELSE \E ok \in BOOLEAN :
                SetWorker(k, [Progress(Polled(worker[k]),
                                       <<worker[k].i, worker[k].n>>, ok)
                                 EXCEPT !.at = "drop"])
    /\ UNCHANGED <<Flags, mutex, hm, pc, brushVars>>

\* One droplet (max_lifetime >= 1): gradient_at indexes the buffer, which
\* panics on a buffer that does not hold the index; the guard is dropped by
\* the unwinding and the thread ends before running.store(false).
WorkerDroplet(k) ==
    /\ \/ worker[k].at = "drop"
       \/ /\ worker[k].at = "top"
          /\ worker[k].i < worker[k].n
          /\ worker[k].i % PollEvery # 0
    /\ IF Degenerate(hm)
         THEN ReleasePoisoned /\ SetWorker(k, NoWorker) /\ UNCHANGED hm
         ELSE /\ hm' = [hm EXCEPT !.content = "eroded"]
              /\ SetWorker(k, [worker[k] EXCEPT !.at = "top", !.i = @ + 1,
                                                !.sendFailed = FALSE])
              /\ UNCHANGED mutex
    /\ UNCHANGED <<Flags, pc, brushVars>>

\* After the last droplet: progress(1.0), and erode returns.
WorkerFinish(k) ==
    /\ worker[k].at = "top"
    /\ worker[k].i = worker[k].n
    /\ \E ok \in BOOLEAN :
         SetWorker(k, [Progress(worker[k], One, ok) EXCEPT !.at = "ret"])
    /\ UNCHANGED <<Flags, mutex, hm, pc, brushVars>>

\* The inner block ends: hm_guard is dropped.
WorkerUnlock(k) ==
    /\ worker[k].at = "ret"
    /\ Release
    /\ SetWorker(k, [worker[k] EXCEPT !.at = "unlocked", !.sendFailed = FALSE])
    /\ UNCHANGED <<Flags, hm, pc, brushVars>>

\* Faulty variant of WorkerClearRunning: the worker resets both flags.
WorkerClearRunning_BothFlags(k) ==
    /\ worker[k].at = "unlocked"
    /\ erosion_running' = FALSE
    /\ erosion_abort' = FALSE
    /\ SetWorker(k, NoWorker)
    /\ UNCHANGED <<mutex, hm, pc, brushVars>>

\* running.store(false, SeqCst), the closure's last statement.
WorkerClearRunning(k) ==
    /\ worker[k].at = "unlocked"
    /\ erosion_running' = FALSE
    /\ SetWorker(k, NoWorker)
    /\ UNCHANGED <<erosion_abort, mutex, hm, pc, brushVars>>

---------------------------------------------------------------------------
(* The harness *)

\* No command has been called.
NoCall ==
    [cmd |-> "", arg |-> <<>>, was |-> <<>>, result |-> "",
     overflowChecks |-> FALSE]

\* AppState::new
HarnessInit ==
    /\ erosion_running = FALSE
    /\ erosion_abort = FALSE
    /\ mutex = [holder |-> Free, poisoned |-> FALSE]
    /\ hm = HeightmapNew(StartupDim, StartupDim)
    /\ pc = [c \in Callers |-> Idle]
    /\ worker = [k \in Workers |-> NoWorker]

BrushIdle ==
    /\ grid = [width |-> 0, height |-> 0, data |-> <<>>]
    /\ before = <<>>
    /\ stroke = [x2 |-> 0, y2 |-> 0, r2 |-> 0, strength |-> 0, op |-> "Raise"]
    /\ rect = <<0, 0, 0, 0>>
    /\ brushDone = FALSE
    /\ envelope = NoEnvelope
    /\ thermal = NoThermal
    /\ call = NoCall

Init == HarnessInit /\ BrushIdle

Next ==
    \/ \E c \in Callers : get_heightmap(c)
    \/ \E c \in Callers : apply_brush_stroke(c)
    \/ \E c \in Callers : generate_terrain(c)
    \/ \E c \in Callers : run_thermal_erosion(c)
    \/ \E c \in Callers : set_heightmap(c)
    \/ \E c \in Callers : save_project(c)
    \/ \E c \in Callers : export_heightmap(c)
    \/ \E c \in Callers : generate_controlnet_texture(c)
    \/ \E c \in Callers : apply_heightmap_image(c)
    \/ \E c \in Callers : load_project(c)
    \/ \E c \in Callers : run_depth_estimation(c)
    \/ \E c \in Callers : run_hydraulic_erosion(c)
    \/ \E c \in Callers : abort_erosion(c)
    \/ \E k \in Workers : WorkerLock(k)
    \/ \E k \in Workers : WorkerPoll(k)
    \/ \E k \in Workers : WorkerDroplet(k)
    \/ \E k \in Workers : WorkerFinish(k)
    \/ \E k \in Workers : WorkerUnlock(k)
    \/ \E k \in Workers : WorkerClearRunning(k)

Spec == Init /\ [][Next]_vars

---------------------------------------------------------------------------
(* BrushSpec: apply_brush applied once to a grid and a stroke drawn from
   bounded sets *)

BrushMaxDim == 3

BrushOps == {"Raise", "Lower", "Smooth", "Flatten"}

\* Cell values by pattern; "wild" holds values outside [0, 1], as erosion or
\* set_heightmap can leave them.
PatternValue(p, i) ==
    CASE p = "zero" -> 0
      [] p = "low" -> 200
      [] p = "high" -> 990
      [] p = "ramp" -> 100 * (i - 1)
      [] p = "wild" -> IF i % 2 = 1 THEN -50 ELSE 1100

\* The 8 x 8 grid filled with 0.2 and the Flatten stroke at (4, 4), r = 3,
\* strength 1.
UniformGrid == [width |-> 8, height |-> 8, data |-> [i \in 1..64 |-> 200]]
CentreStroke ==
    [x2 |-> 8, y2 |-> 8, r2 |-> 6, strength |-> StrengthDen, op |-> "Flatten"]

\* The grids: width * height cells, none when a dimension is 0 (a grid
\* load_project can install).
BrushGrids ==
    { [width |-> w, height |-> h,
       data |-> [i \in 1..(w * h) |-> PatternValue(p, i)]] :
        w \in 0..BrushMaxDim, h \in 0..BrushMaxDim,
        p \in {"zero", "low", "high", "ramp", "wild"} }
    \cup {UniformGrid}

Strokes ==
    [ x2 : (-3)..(2 * BrushMaxDim + 2),
      y2 : {-3, 0, 1, 2 * BrushMaxDim - 2, 2 * BrushMaxDim + 2},
      r2 : {-1, 0, 1, 2, 4},
      strength : {StrengthDen, 10 * StrengthDen},
      op : BrushOps ]
    \cup {CentreStroke}

BrushInit ==
    /\ HarnessInit
    /\ grid \in BrushGrids
    /\ stroke \in Strokes
    /\ before = grid.data
    /\ rect = <<0, 0, 0, 0>>
    /\ brushDone = FALSE
    /\ envelope = NoEnvelope
    /\ thermal = NoThermal
    /\ call = NoCall

\* The answer of apply_brush_stroke to the rectangle rc: the full grid for an
\* empty rectangle, else the region.
BrushResponse(m, rc) ==
    IF rc[3] = 0 \/ rc[4] = 0 THEN pack_full(m)
    ELSE pack_region(m, rc[1], rc[2], rc[3], rc[4])

\* The body of apply_brush_stroke under the lock: apply_brush, then the
\* envelope; a panic leaves the grid as it was.
BrushApply ==
    /\ ~brushDone
    /\ envelope = NoEnvelope
    /\ \E overflowChecks \in BOOLEAN :
         IF BrushPanics(grid, stroke, overflowChecks)
           THEN /\ envelope' = Panicked
                /\ UNCHANGED <<grid, rect, before, brushDone>>
           ELSE LET r == apply_brush(grid, stroke) IN
                  /\ grid' = r.hm
                  /\ rect' = r.rect
                  /\ before' = grid.data
                  /\ brushDone' = TRUE
                  /\ envelope' = BrushResponse(r.hm, r.rect)
    /\ UNCHANGED <<stroke, thermal, call, harnessVars>>

BrushNext == BrushApply

BrushSpec == BrushInit /\ [][BrushNext]_vars

---------------------------------------------------------------------------
(* PackSpec: pack_region applied once to a grid and a rectangle inside it *)

\* The rectangles <<rx, ry, rw, rh>> with rx + rw <= W and ry + rh <= H.
RegionRects(m) ==
    {rc \in (0..m.width) \X (0..m.height) \X (0..m.width) \X (0..m.height) :
        rc[1] + rc[3] <= m.width /\ rc[2] + rc[4] <= m.height}

PackInit ==
    /\ HarnessInit
    /\ grid \in BrushGrids
    /\ rect \in RegionRects(grid)
    /\ before = grid.data
    /\ stroke = [x2 |-> 0, y2 |-> 0, r2 |-> 0, strength |-> 0, op |-> "Raise"]
    /\ brushDone = FALSE
    /\ envelope = NoEnvelope
    /\ thermal = NoThermal
    /\ call = NoCall

PackRegion ==
    /\ envelope = NoEnvelope
    /\ envelope' = pack_region(grid, rect[1], rect[2], rect[3], rect[4])
    /\ UNCHANGED <<grid, before, stroke, rect, brushDone, thermal, call, harnessVars>>

PackNext == PackRegion

PackSpec == PackInit /\ [][PackNext]_vars

---------------------------------------------------------------------------
(* ThermalSpec: thermal::erode applied once to a grid and parameters drawn
   from bounded sets *)

MaxIterations == 2

\* The 3 x 3 grid with centre 1 and 0 elsewhere.
PeakGrid ==
    [width |-> 3, height |-> 3,
     data |-> [i \in 1..9 |-> IF i = 5 THEN Scale ELSE 0]]

ThermalGrids ==
    {g \in BrushGrids : g.width <= BrushMaxDim} \cup {PeakGrid}

\* iterations, the talus threshold (0, 0.3 or 1.5) and transfer_rate in (0, 1].
ThermalParamSets ==
    [ iterations : 0..MaxIterations,
      talus : {0, 300, 1500},
      rate : {RateDen \div 2, RateDen},
      done : {FALSE} ]

ThermalInit ==
    /\ HarnessInit
    /\ grid \in ThermalGrids
    /\ thermal \in ThermalParamSets
    /\ before = grid.data
    /\ stroke = [x2 |-> 0, y2 |-> 0, r2 |-> 0, strength |-> 0, op |-> "Raise"]
    /\ rect = <<0, 0, 0, 0>>
    /\ brushDone = FALSE
    /\ envelope = NoEnvelope
    /\ call = NoCall

\* The body of run_thermal_erosion under the lock: erode, then the full
\* envelope.
ThermalApply ==
    /\ ~thermal.done
    /\ grid' = [grid EXCEPT !.data =
                  ThermalErode(grid.data, grid.width, grid.height, thermal,
                               thermal.iterations)]
    /\ before' = grid.data
    /\ thermal' = [thermal EXCEPT !.done = TRUE]
    /\ envelope' = pack_full(grid')
    /\ UNCHANGED <<stroke, rect, brushDone, call, harnessVars>>

ThermalNext == ThermalApply

ThermalSpec == ThermalInit /\ [][ThermalNext]_vars

---------------------------------------------------------------------------
(* CommandSpec: set_heightmap and load_project applied once, by one caller,
   to a concrete grid.  The call records the command, its argument (the
   vector, or the archive), the grid it found, its result and the build. *)

\* The grid a release build installs from a manifest of 65536 x 65536 and an
\* empty heightmap.bin.
OverflowGrid == [width |-> Half, height |-> Half, data |-> <<>>]

CommandGrids ==
    {g \in BrushGrids : g.width <= BrushMaxDim} \cup {OverflowGrid}

\* The vectors handed to set_heightmap: as long as the buffer, one longer,
\* one shorter, or empty.
SetVectors(m) ==
    { [i \in 1..n |-> PatternValue(p, i)] :
        n \in {k \in {0, Len(m.data) - 1, Len(m.data), Len(m.data) + 1} : k >= 0},
        p \in {"high", "ramp"} }

LoadDims == {0, 1, 2, Half}

\* The archives handed to load_project, heightmap.bin holding 0, 1, 2 or 4
\* floats (pattern names their values).
LoadArchives ==
    [ hasManifest : BOOLEAN, validManifest : BOOLEAN,
      formatVersion : {FORMAT_VERSION, FORMAT_VERSION + 1},
      width : LoadDims, height : LoadDims,
      hasBin : BOOLEAN, binBytes : {0, 4, 8, 16}, pattern : {"high"} ]

\* The body of commands::set_heightmap under the lock: the Heightmap it
\* leaves and what it returns.
set_heightmap_body(m, data, overflowChecks) ==
    IF overflowChecks /\ MulOverflows(m.width, m.height)
    THEN [hm |-> m, result |-> "panic"]
    ELSE IF Len(data) # MulU32(m.width, m.height)
    THEN [hm |-> m, result |-> "Data length mismatch"]
    ELSE IF Len(data) # Len(m.data)
    THEN [hm |-> m, result |-> "panic"]
    ELSE [hm |-> [m EXCEPT !.data = data], result |-> "Ok"]

\* heightmap.bin decoded: one f32 per 4 bytes.
LoadedHeightmap(a) ==
    [width |-> a.width, height |-> a.height,
     data |-> [i \in 1..(a.binBytes \div 4) |-> PatternValue(a.pattern, i)]]

\* The body of commands::load_project: project::load_project(path)?, then
\* *hm = new_hm.
load_project_body(m, a, overflowChecks) ==
    IF LoadError(a, overflowChecks) # ""
    THEN [hm |-> m, result |-> LoadError(a, overflowChecks)]
    ELSE [hm |-> LoadedHeightmap(a), result |-> "Ok"]

\* A build with overflow checks never installs the OverflowGrid.
CommandInit ==
    /\ HarnessInit
    /\ grid \in CommandGrids
    /\ before = grid.data
    /\ stroke = [x2 |-> 0, y2 |-> 0, r2 |-> 0, strength |-> 0, op |-> "Raise"]
    /\ rect = <<0, 0, 0, 0>>
    /\ brushDone = FALSE
    /\ envelope = NoEnvelope
    /\ thermal = NoThermal
    /\ \E checks \in BOOLEAN :
         /\ checks => grid # OverflowGrid
         /\ \/ \E data \in SetVectors(grid) :
                  call = [cmd |-> "set_heightmap", arg |-> data, was |-> grid,
                          result |-> "", overflowChecks |-> checks]
            \/ \E a \in LoadArchives :
                  call = [cmd |-> "load_project", arg |-> a, was |-> grid,
                          result |-> "", overflowChecks |-> checks]
            \/ call = [cmd |-> "run_depth_estimation", arg |-> <<>>,
                       was |-> grid, result |-> "",
                       overflowChecks |-> checks]

SetHeightmapCall ==
    /\ call.cmd = "set_heightmap"
    /\ call.result = ""
    /\ LET r == set_heightmap_body(grid, call.arg, call.overflowChecks)
       IN  /\ grid' = r.hm
           /\ call' = [call EXCEPT !.result = r.result]
    /\ UNCHANGED <<before, stroke, rect, brushDone, envelope, thermal,
                   harnessVars>>

LoadProjectCall ==
    /\ call.cmd = "load_project"
    /\ call.result = ""
    /\ LET r == load_project_body(grid, call.arg, call.overflowChecks)
       IN  /\ grid' = r.hm
           /\ call' = [call EXCEPT !.result = r.result]
    /\ UNCHANGED <<before, stroke, rect, brushDone, envelope, thermal,
                   harnessVars>>

\* ai::run_depth_estimation for the dimensions read under the first lock:
\* an Err of the subprocess, or width * height floats (the output file's size
\* is checked against the u32 product).
DepthResults(m, overflowChecks) ==
    {[ok |-> FALSE, values |-> <<>>]}
    \cup (IF overflowChecks /\ MulOverflows(m.width, m.height) THEN {}
          ELSE { [ok |-> TRUE,
                  values |-> [i \in 1..MulU32(m.width, m.height) |->
                                 PatternValue(p, i)]] : p \in {"high", "ramp"} })

\* The second critical section of run_depth_estimation, no mask supplied:
\* the length check against the buffer held now, then copy_from_slice.
depth_blend_body(m, depth) ==
    IF Len(depth) # Len(m.data)
    THEN [hm |-> m, result |-> "Depth data length mismatch"]
    ELSE [hm |-> [m EXCEPT !.data = depth], result |-> "Ok"]

\* run_depth_estimation up to the estimator's return: the dimensions are
\* read under the lock, the lock is dropped, the estimator runs; its Err is
\* the command's result.
DepthEstimate ==
    /\ call.cmd = "run_depth_estimation"
    /\ call.result = ""
    /\ \E r \in DepthResults(grid, call.overflowChecks) :
         call' = [call EXCEPT !.arg = r.values,
                              !.result = IF r.ok THEN "estimated"
                                         ELSE "Depth estimation failed"]
    /\ UNCHANGED <<grid, before, stroke, rect, brushDone, envelope, thermal,
                   harnessVars>>

\* While the estimator runs the mutex is free: a load_project of another
\* caller replaces the grid.
GridReplaced ==
    /\ call.cmd = "run_depth_estimation"
    /\ call.result = "estimated"
    /\ \E g \in CommandGrids :
         /\ g # grid
         /\ call.overflowChecks => g # OverflowGrid
         /\ grid' = g
    /\ UNCHANGED <<call, before, stroke, rect, brushDone, envelope, thermal,
                   harnessVars>>

\* The lock is taken again (was: the grid found then) and the depth values
\* are checked and copied; Ok answers the full envelope.
DepthBlend ==
    /\ call.cmd = "run_depth_estimation"
    /\ call.result = "estimated"
    /\ LET r == depth_blend_body(grid, call.arg)
       IN  /\ grid' = r.hm
           /\ call' = [call EXCEPT !.result = r.result, !.was = grid]
           /\ envelope' = IF r.result = "Ok" THEN pack_full(r.hm)
                          ELSE envelope
    /\ UNCHANGED <<before, stroke, rect, brushDone, thermal, harnessVars>>

CommandNext ==
    \/ SetHeightmapCall
    \/ LoadProjectCall
    \/ DepthEstimate
    \/ GridReplaced
    \/ DepthBlend

CommandSpec == CommandInit /\ [][CommandNext]_vars

---------------------------------------------------------------------------
(* Properties of the harness *)

\* A caller whose swap found running = false and which has not returned yet.
Starting(c) == pc[c].at \in {"hyd_store", "hyd_spawn"}
\* The worker threads that exist.
LiveWorkers == {k \in Workers : worker[k].at # "none"}
\* The step in which caller c's swap completes.
SwapStep(c) == pc[c].at = "hyd_swap" /\ pc'[c].at # "hyd_swap"
\* The step in which worker k's thread ends.
ExitStep(k) == worker[k].at # "none" /\ worker'[k].at = "none"
\* The step in which worker k's closure runs to its end.
CompletionStep(k) == worker[k].at = "unlocked" /\ worker'[k].at = "none"
\* erode has returned before its last droplet.
ReturnedEarly(k) ==
    worker[k].at \in {"ret", "unlocked"} /\ worker[k].i < worker[k].n

\* C1 (single-flight): a swap that finds running = true (a job is in flight,
\* or the other of two racing starts won) leads to the "already running"
\* error and spawns no worker, a swap that finds it false goes on to spawn;
\* two starts are never both past a successful swap, and a caller about to
\* return the error only returns.
C1_SingleFlight ==
    /\ [](Cardinality({c \in Callers : Starting(c)}) <= 1)
    /\ [][\A c \in Callers :
            /\ SwapStep(c) =>
                 /\ erosion_running => pc'[c].at = "hyd_err" /\ worker' = worker
                 /\ ~erosion_running => pc'[c].at = "hyd_store"
            /\ (pc[c].at = "hyd_err" /\ pc'[c] # pc[c]) =>
                 pc'[c].at = "idle" /\ worker' = worker
         ]_vars

\* Two starts raced: one is on its way to spawn, the other got the error.
C1_Witness ==
    \E c, d \in Callers :
        c # d /\ pc[c].at = "hyd_err" /\ pc[d].at = "hyd_spawn" /\ LiveWorkers = {}

\* C2 (as claimed): whenever a worker thread ends - by completion, by the
\* early return on abort or by a panic - running is false afterwards.
C2_RunningClearedOnEveryExit ==
    [][\A k \in Workers : ExitStep(k) => ~erosion_running']_vars

\* C3 (abort bounded response): once the abort flag is set during the droplet
\* loop it stays set, the loop does not get past the end of the 1000-droplet
\* block it was in (at most 1000 further droplets), and an early return is at
\* a multiple of 1000 with the droplets before it left in the grid.
C3_AbortBounded ==
    \A k \in Workers :
        (worker[k].at \in {"top", "drop", "ret"} /\ worker[k].abortBlock >= 0) =>
            /\ erosion_abort
            /\ worker[k].i <= (worker[k].abortBlock + 1) * PollEvery
            /\ (worker[k].at = "top" /\ worker[k].i < worker[k].n) =>
                   worker[k].i < (worker[k].abortBlock + 1) * PollEvery
                   \/ worker[k].i % PollEvery = 0
            /\ ReturnedEarly(k) =>
                   /\ worker[k].i % PollEvery = 0
                   /\ worker[k].i > 0 => hm.content = "eroded"

\* The flag was set inside the first block; erode returned at droplet 1000
\* and left droplet 1000 unsimulated.
C3_Witness ==
    \E k \in Workers :
        /\ worker[k].at = "ret"
        /\ worker[k].abortBlock = 0
        /\ worker[k].i = PollEvery
        /\ worker[k].n > PollEvery
        /\ hm.content = "eroded"

\* C5: at most one worker exists, running is true while a start or a worker
\* is under way, and the flag changes only false -> true by a successful swap
\* and true -> false by the completion of the only worker; a rejected start
\* changes nothing.
C5_OneWorkerAlternating ==
    /\ [](/\ Cardinality(LiveWorkers) + Cardinality({c \in Callers : Starting(c)}) <= 1
          /\ (LiveWorkers # {} \/ \E c \in Callers : Starting(c)) => erosion_running)
    /\ [][/\ (~erosion_running /\ erosion_running') =>
               \E c \in Callers : SwapStep(c) /\ pc'[c].at = "hyd_store"
          /\ (erosion_running /\ ~erosion_running') =>
               \E k \in Workers : CompletionStep(k) /\ LiveWorkers = {k}
          /\ \A c \in Callers :
               (SwapStep(c) /\ pc'[c].at = "hyd_err") =>
                   UNCHANGED <<erosion_running, erosion_abort, worker, mutex, hm>>
         ]_vars

\* A start was rejected while the only worker is inside its loop.
C5_Witness ==
    /\ erosion_running
    /\ \E k \in Workers : LiveWorkers = {k} /\ InLoop(k) /\ worker[k].i > 0
    /\ \E c \in Callers : pc[c].at = "hyd_err"

\* No start is past its swap and no worker thread exists.
NoJob == LiveWorkers = {} /\ \A c \in Callers : ~Starting(c)

\* C4 (as claimed, in the form a finite run refutes): every started job ends
\* with running = false, so that once no job is left the next start's swap
\* finds false and succeeds.
C4_EveryJobEndsNotRunning == NoJob => ~erosion_running

\* C6 (as claimed): the step that completes a job, normally or by abort,
\* leaves both running and abort false.
C6_BothFlagsResetOnCompletion ==
    [][\A k \in Workers :
          CompletionStep(k) => ~erosion_running' /\ ~erosion_abort']_vars

\* C6 (amended): the completion of a job, normally or by abort, resets running
\* only and leaves abort as it was; abort goes from true to false only in the
\* store of a successful start, after its swap and before its spawn, so a
\* worker always starts with abort stored false by its own start or set
\* again since by abort_erosion.
C6_AbortResetByNextStart ==
    [][/\ \A k \in Workers :
            CompletionStep(k) => ~erosion_running' /\ erosion_abort' = erosion_abort
       /\ (erosion_abort /\ ~erosion_abort') =>
            \E c \in Callers :
                /\ pc[c].at = "hyd_store" /\ pc'[c].at = "hyd_spawn"
                /\ erosion_running /\ worker' = worker
       /\ \A c \in Callers :
            (pc[c].at = "hyd_store" /\ pc'[c].at # "hyd_store") =>
                ~erosion_abort' /\ pc'[c].at = "hyd_spawn"
      ]_vars

\* An aborted job has completed and nothing was started since: running is
\* false, abort is still true.
C6_Witness ==
    /\ NoJob
    /\ ~erosion_running
    /\ erosion_abort
    /\ hm.content = "eroded"
    /\ \A c \in Callers : pc[c].at = "idle"

\* C7 (as claimed): the heightmap keeps the dimensions set at startup and its
\* buffer has width * height cells.
C7_DimensionsConstant ==
    /\ hm.width = StartupDim
    /\ hm.height = StartupDim
    /\ hm.len = hm.width * hm.height

\* C8 (mutual exclusion): a command inside its critical section and a worker
\* between its lock and its unlock hold the mutex, so there is at most one of
\* them; the worker holds it from before its first droplet until erode has
\* returned; every step that changes the grid, or finishes a read of it, is
\* taken by the current holder of the mutex.
C8_MutualExclusion ==
    /\ [](/\ \A c \in Callers : pc[c].at = "crit" => mutex.holder = CallerId(c)
          /\ \A k \in Workers :
                worker[k].at \in {"top", "drop", "ret"} => mutex.holder = WorkerId(k)
          /\ \A k \in Workers :
                (worker[k].at # "none" /\ worker[k].i > 0 /\ worker[k].at # "unlocked")
                    => mutex.holder = WorkerId(k))
    /\ [][/\ hm' # hm =>
               \/ \E c \in Callers : pc[c].at = "crit" /\ mutex.holder = CallerId(c)
                                     /\ pc'[c].at # "crit"
               \/ \E k \in Workers : worker[k].at = "drop" /\ mutex.holder = WorkerId(k)
          /\ \A c \in Callers :
               (pc[c].at = "crit" /\ pc'[c].at # "crit") => mutex.holder = CallerId(c)
         ]_vars

\* The worker is in the middle of a job and holds the mutex while a depth
\* estimation waits to blend and another command waits to start.
C8_Witness ==
    \E k \in Workers, c \in Callers :
        /\ worker[k].at = "drop"
        /\ worker[k].i > 0
        /\ mutex.holder = WorkerId(k)
        /\ pc[c].at = "estimating"

\* C9: the step that sets the abort flag changes nothing else (not the
\* running flag, the mutex, the grid or any command's position), and
\* abort_erosion can always be taken by an idle caller, whoever holds the
\* mutex.
C9_AbortFrame ==
    /\ [](\A c \in Callers : pc[c].at = "idle" => ENABLED abort_erosion(c))
    /\ [][(~erosion_abort /\ erosion_abort') =>
             /\ UNCHANGED <<erosion_running, mutex, hm>>
             /\ \A c \in Callers :
                  /\ pc'[c].at = pc[c].at
                  /\ pc'[c].cmd = pc[c].cmd
                  /\ ~AfterSwap(c) => pc'[c] = pc[c]
             /\ \A k \in Workers :
                  /\ worker'[k].at = worker[k].at
                  /\ worker'[k].i = worker[k].i
         ]_vars

\* The flag was set while the worker holds the mutex in the middle of a
\* block.
C9_Witness ==
    \E k \in Workers :
        /\ erosion_abort
        /\ worker[k].at = "top"
        /\ worker[k].i % PollEvery # 0
        /\ worker[k].abortBlock >= 0
        /\ mutex.holder = WorkerId(k)

---------------------------------------------------------------------------
(* Properties of the brush *)

\* Cell (x, y) lies inside the rectangle <<x, y, w, h>>.
InRect(rc, x, y) ==
    /\ rc[1] <= x /\ x < rc[1] + rc[3]
    /\ rc[2] <= y /\ y < rc[2] + rc[4]

\* The cells whose value the stroke changed.
ChangedCells ==
    {xy \in (0 .. grid.width - 1) \X (0 .. grid.height - 1) :
        grid.data[xy[2] * grid.width + xy[1] + 1] # before[xy[2] * grid.width + xy[1] + 1]}

\* C10 (dirty-rect containment): after apply_brush every cell outside the
\* returned rectangle has the value it had before the stroke, and the grid
\* keeps its shape.
C10_DirtyRectContainment ==
    brushDone =>
        /\ Len(grid.data) = Len(before)
        /\ \A xy \in ChangedCells : InRect(rect, xy[1], xy[2])

\* A stroke changed some cells and returned a rectangle that leaves out
\* other cells of the grid.
C10_Witness ==
    /\ brushDone
    /\ ChangedCells # {}
    /\ rect[3] * rect[4] < grid.width * grid.height
    /\ rect[3] > 1
    /\ stroke.op = "Smooth"

\* The stroke's integer bounding box [floor(x-r), ceil(x+r)] x
\* [floor(y-r), ceil(y+r)] does not meet the grid [0, W-1] x [0, H-1].
BoxMissesGrid(m, s) ==
    \/ Max((s.x2 - s.r2) \div CoordDen, 0) > Min(CeilDiv(s.x2 + s.r2, CoordDen), m.width - 1)
    \/ Max((s.y2 - s.r2) \div CoordDen, 0) > Min(CeilDiv(s.y2 + s.r2, CoordDen), m.height - 1)

\* C11 (as claimed): a stroke whose bounding box misses the grid - to the
\* right, below, to the left or above - returns (0, 0, 0, 0) and leaves every
\* cell as it was.
C11_ZeroRectOutsideGrid ==
    (brushDone /\ BoxMissesGrid(grid, stroke)) =>
        rect = <<0, 0, 0, 0>> /\ grid.data = before

\* The envelope's message type byte.
EnvelopeType == envelope.header[5]

\* C12 (as claimed): apply_brush_stroke answers a non-empty rectangle with a
\* Region envelope and an empty one with a Full envelope, and the rectangle
\* it hands to pack_region lies inside the grid.
C12_RegionInsideGrid ==
    brushDone =>
        IF rect[3] = 0 \/ rect[4] = 0
          THEN envelope.status = "sent" /\ EnvelopeType = MSG_FULL
          ELSE /\ rect[1] + rect[3] <= grid.width
               /\ rect[2] + rect[4] <= grid.height
               /\ envelope.status = "sent" /\ EnvelopeType = MSG_REGION

\* The value of cell c = <<x, y>> after and before the stroke.
After(c) == grid.data[c[2] * grid.width + c[1] + 1]
Before(c) == before[c[2] * grid.width + c[1] + 1]

\* C13 (as claimed): every cell the stroke wrote holds a value in [0, 1].
C13_WrittenCellsClamped ==
    brushDone =>
        \A c \in BrushCells(grid, stroke) :
            ~IsNaN(After(c)) /\ 0 <= After(c) /\ After(c) <= Scale

\* The f32 comparison a < b: false when either side is NaN.
Lt(a, b) == ~IsNaN(a) /\ ~IsNaN(b) /\ a < b

\* The cells of the grid.
GridCells == (0 .. grid.width - 1) \X (0 .. grid.height - 1)

Abs(v) == IF v < 0 THEN -v ELSE v

\* The cell at the rounded stroke centre, clamped into the grid, and its
\* height before the stroke.
CentreCell ==
    <<Max(0, Min(RoundHalf(stroke.x2), grid.width - 1)),
      Max(0, Min(RoundHalf(stroke.y2), grid.height - 1))>>
Target == Before(CentreCell)

\* Cell c is not farther from the target than it was.
Approaches(c) ==
    ~IsNaN(After(c)) /\ Abs(After(c) - Target) <= Abs(Before(c) - Target)

\* The 8 x 8 scenario: nothing changes and the dirty rectangle is (1,1,7,7).
UniformFixedPoint ==
    (grid.width = UniformGrid.width /\ before = UniformGrid.data /\ stroke = CentreStroke)
        => grid.data = before /\ rect = <<1, 1, 7, 7>>

\* C15 (as claimed): after a Flatten stroke every cell is at most as far from
\* the pre-stroke height at the rounded centre as it was before; the uniform
\* 8 x 8 grid is a fixed point with dirty rectangle (1, 1, 7, 7).
C15_FlattenApproachesTarget ==
    (brushDone /\ stroke.op = "Flatten" /\ GridCells # {}) =>
        /\ \A c \in GridCells : Approaches(c)
        /\ UniformFixedPoint

\* C15 (amended): for a Flatten stroke of strength in [0, 1] whose target
\* (the pre-stroke height at the rounded centre) lies in [0, 1], every cell is
\* at most as far from the target as it was before, except that a stroke of
\* radius 0 centred on a cell leaves NaN in that one cell; the uniform 8 x 8
\* grid is a fixed point with dirty rectangle (1, 1, 7, 7).
C15_FlattenApproachesWithinRange ==
    (/\ brushDone /\ stroke.op = "Flatten" /\ GridCells # {}
     /\ 0 <= stroke.strength /\ stroke.strength <= StrengthDen
     /\ 0 <= Target /\ Target <= Scale) =>
        /\ \A c \in GridCells :
              IF stroke.r2 = 0 /\ c \in BrushCells(grid, stroke)
                THEN IsNaN(After(c)) /\ BrushCells(grid, stroke) = {c}
                ELSE Approaches(c)
        /\ UniformFixedPoint

\* A Flatten stroke moved a cell strictly closer to a target that differs
\* from the cell's height.
C15_Witness ==
    /\ brushDone
    /\ stroke.op = "Flatten"
    /\ stroke.strength = StrengthDen
    /\ GridCells # {}
    /\ 0 <= Target /\ Target <= Scale
    /\ \E c \in BrushCells(grid, stroke) :
          /\ After(c) # Before(c)
          /\ Abs(After(c) - Target) < Abs(Before(c) - Target)
          /\ c # CentreCell

---------------------------------------------------------------------------
(* Properties of the envelopes *)

\* The u32 read little-endian from bytes i .. i+3 of b.
FromLE32(b, i) == b[i] + 256 * b[i + 1] + 65536 * b[i + 2] + 16777216 * b[i + 3]

\* The length of the envelope in bytes.
EnvelopeBytes == Len(envelope.header) + 4 * Len(envelope.words)

\* A grid of the shape of `grid` filled with a value no grid of the model
\* holds, patched with the region envelope as its header declares it.
Filler == -(Scale + 1)
Patched ==
    LET px == FromLE32(envelope.header, 9)
        py == FromLE32(envelope.header, 13)
        pw == FromLE32(envelope.header, 17)
        ph == FromLE32(envelope.header, 21)
    IN  [i \in 1..(grid.width * grid.height) |->
           LET x == (i - 1) % grid.width
               y == (i - 1) \div grid.width
           IN  IF px <= x /\ x < px + pw /\ py <= y /\ y < py + ph
                 THEN envelope.words[(y - py) * pw + (x - px) + 1]
                 ELSE Filler]

\* C16: pack_region's envelope is 24 header bytes - version 1, type 1, three
\* zero bytes, rx, ry, rw, rh little-endian - and rw * rh values, the cells
\* (x, y) of the rectangle row by row; a fresh grid patched with it equals the
\* grid inside the rectangle and is untouched outside; the length is
\* 24 + 4 * rw * rh bytes.
C16_PackRegionLayout ==
    envelope.status # "none" =>
        /\ envelope.status = "sent"
        /\ Len(envelope.header) = 24
        /\ FromLE32(envelope.header, 1) = 1
        /\ envelope.header[5] = 1
        /\ envelope.header[6] = 0 /\ envelope.header[7] = 0 /\ envelope.header[8] = 0
        /\ <<FromLE32(envelope.header, 9), FromLE32(envelope.header, 13),
             FromLE32(envelope.header, 17), FromLE32(envelope.header, 21)>> = rect
        /\ \A i \in 1..24 : envelope.header[i] \in 0..255
        /\ Len(envelope.words) = rect[3] * rect[4]
        /\ EnvelopeBytes = 24 + 4 * rect[3] * rect[4]
        /\ \A y \in rect[2]..(rect[2] + rect[4] - 1), x \in rect[1]..(rect[1] + rect[3] - 1) :
              envelope.words[(y - rect[2]) * rect[3] + (x - rect[1]) + 1]
                  = grid.data[y * grid.width + x + 1]
        /\ \A c \in GridCells :
              Patched[c[2] * grid.width + c[1] + 1]
                  = IF InRect(rect, c[1], c[2]) THEN After(c) ELSE Filler

\* A region of two rows and two columns, off the origin, of a grid whose
\* cells differ, has been packed.
C16_Witness ==
    /\ envelope.status = "sent"
    /\ rect[1] > 0 /\ rect[2] > 0 /\ rect[3] = 2 /\ rect[4] = 2
    /\ rect[1] + rect[3] < grid.width + 1
    /\ envelope.words[1] # envelope.words[2]
    /\ envelope.words[2] # envelope.words[3]

---------------------------------------------------------------------------
(* Properties of thermal erosion *)

\* C17: thermal erosion conserves the sum of the grid (every share taken from
\* a cell is added to one in-grid neighbour), and on the 3 x 3 grid with
\* centre 1, talus 0, transferRate 1, one iteration moves the centre's drop in
\* four equal shares to its 4-neighbours and leaves the corners.
C17_ThermalConserves ==
    thermal.done =>
        /\ Len(grid.data) = Len(before)
        /\ SeqSum(grid.data) = SeqSum(before)
        /\ (before = PeakGrid.data /\ grid.width = 3 /\ thermal.iterations = 1
              /\ thermal.talus = 0 /\ thermal.rate = RateDen) =>
               /\ grid.data[5] < before[5]
               /\ \A i \in {2, 4, 6, 8} :
                    grid.data[i] - before[i] = grid.data[2] - before[2]
               /\ 4 * (grid.data[2] - before[2]) = before[5] - grid.data[5]
               /\ \A i \in {1, 3, 7, 9} : grid.data[i] = before[i]

\* The peak scenario has run and moved material.
C17_Witness ==
    /\ thermal.done
    /\ before = PeakGrid.data
    /\ thermal.iterations = 1 /\ thermal.talus = 0 /\ thermal.rate = RateDen
    /\ grid.data[2] > 0

---------------------------------------------------------------------------
(* Properties of set_heightmap and load_project *)

\* n = w * h, without forming the product.
IsProduct(n, w, h) ==
    IF w = 0 \/ h = 0 THEN n = 0 ELSE n % w = 0 /\ n \div w = h

SetReturned == call.cmd = "set_heightmap" /\ call.result # ""
LoadReturned == call.cmd = "load_project" /\ call.result # ""

\* The outcome set_heightmap is described to have on the grid it found.
SetAsDescribed ==
    /\ grid.width = call.was.width
    /\ grid.height = call.was.height
    /\ IF IsProduct(Len(call.arg), call.was.width, call.was.height)
       THEN call.result = "Ok" /\ grid.data = call.arg
       ELSE call.result = "Data length mismatch" /\ grid = call.was

\* C18: set_heightmap replaces the whole buffer when the vector's length is
\* W*H and otherwise returns the 'Data length mismatch' error with the grid
\* (data and dimensions) unchanged; width and height stay in both cases.
C18_SetHeightmapChecksLength == SetReturned => SetAsDescribed

\* The same on every grid whose W*H fits a u32.
C18_SetHeightmapWithinU32 ==
    SetReturned /\ ~MulOverflows(call.was.width, call.was.height)
        => SetAsDescribed

\* The failures of an archive: no manifest.json, a manifest that does not
\* parse, a newer formatVersion, no heightmap.bin, or a heightmap.bin whose
\* size is not width * height * 4.
ArchiveFails(a) ==
    \/ ~a.hasManifest
    \/ ~a.validManifest
    \/ a.formatVersion > FORMAT_VERSION
    \/ ~a.hasBin
    \/ a.binBytes % 4 # 0
    \/ ~IsProduct(a.binBytes \div 4, a.width, a.height)

IsErrorString(r) == r \notin {"", "Ok", "panic"}

LoadAsDescribed ==
    /\ call.arg.hasManifest /\ call.arg.validManifest
         /\ call.arg.formatVersion > FORMAT_VERSION
            => call.result = "Project version is newer"
    /\ ArchiveFails(call.arg)
            => IsErrorString(call.result) /\ grid = call.was
    /\ ~ArchiveFails(call.arg)
            => call.result = "Ok" /\ grid = LoadedHeightmap(call.arg)

\* C19: load_project rejects a formatVersion greater than the known one; on
\* every failure it returns an error string and leaves the grid unchanged;
\* the grid is replaced only when the whole archive was read successfully.
C19_LoadProjectAllOrNothing == LoadReturned => LoadAsDescribed

\* The same for every manifest whose width * height fits a u32.
C19_LoadProjectWithinU32 ==
    LoadReturned /\ ~MulOverflows(call.arg.width, call.arg.height)
        => LoadAsDescribed

---------------------------------------------------------------------------
(* Properties of the progress protocol *)

\* The droplet indices at which worker k's loop has passed its abort check
\* and called progress: the multiples of 1000 below i, and i itself while the
\* droplet of a checked iteration is pending.
Emitted(k) ==
    {j \in 0..worker[k].i :
        /\ j % PollEvery = 0
        /\ j < worker[k].i \/ worker[k].at = "drop"}

RECURSIVE Fractions(_, _, _)
\* j/n for the multiples j of 1000 from `from` on that are in S, increasing.
Fractions(S, from, n) ==
    IF \A j \in S : j < from THEN <<>>
    ELSE IF from \in S THEN <<(<<from, n>>)>> \o Fractions(S, from + PollEvery, n)
    ELSE Fractions(S, from + PollEvery, n)

\* erode ran all its droplets and returned from its last line.
RanToTheEnd(k) ==
    worker[k].at \in {"ret", "unlocked"} /\ worker[k].i = worker[k].n

\* What worker k has sent, by its position.
ProgressSoFar(k) ==
    Fractions(Emitted(k), 0, worker[k].n)
        \o (IF RanToTheEnd(k) THEN <<One>> ELSE <<>>)

\* The abort check of iteration i (a multiple of 1000) in this step.
PollStep(k) ==
    /\ worker[k].at = "top"
    /\ worker[k].i < worker[k].n
    /\ worker[k].i % PollEvery = 0
    /\ worker'[k].at # "top"

\* C20: the worker emits i/N exactly at each multiple i of 1000 at which the
\* abort flag is not set, in increasing order, and 1.0 exactly when it ran
\* all N droplets without an early return (N = 0: only 1.0); a send that
\* fails neither stops nor fails the job.
C20_ProgressProtocol ==
    /\ [](\A k \in Workers :
            worker[k].at # "none" => worker[k].sent = ProgressSoFar(k))
    /\ [][\A k \in Workers : PollStep(k) =>
            IF erosion_abort
              THEN worker'[k].at = "ret" /\ worker'[k].sent = worker[k].sent
              ELSE /\ worker'[k].at = "drop"
                   /\ worker'[k].sent =
                        Append(worker[k].sent, <<worker[k].i, worker[k].n>>)]_vars

\* A job of MaxDroplets droplets has sent 0/N and 1000/N, the second send
\* failed, and the job goes on with droplet 1000.
C20_Witness ==
    \E k \in Workers :
        /\ worker[k].at = "drop"
        /\ worker[k].i = PollEvery
        /\ worker[k].n = MaxDroplets
        /\ worker[k].sendFailed
        /\ worker[k].sent = <<(<<0, MaxDroplets>>), (<<PollEvery, MaxDroplets>>)>>

---------------------------------------------------------------------------
(* Properties of the depth blend *)

\* run_depth_estimation returned from its second critical section.
DepthReturned ==
    /\ call.cmd = "run_depth_estimation"
    /\ call.result \in {"Ok", "Depth data length mismatch"}

\* The outcome the blend without a mask is described to have on the grid
\* held when the mutex was taken again.
DepthAsDescribed ==
    IF IsProduct(Len(call.arg), call.was.width, call.was.height)
    THEN /\ call.result = "Ok"
         /\ grid = [call.was EXCEPT !.data = call.arg]
    ELSE /\ call.result = "Depth data length mismatch"
         /\ grid = call.was

\* C21: without a mask, a depth array of length W*H (of the grid held when
\* the mutex is taken again) overwrites every cell with its depth value; any
\* other length returns the length-mismatch error and leaves the grid
\* unchanged.
C21_DepthOverwritesOrRejects == DepthReturned => DepthAsDescribed

\* The same on every grid whose W*H fits a u32.
C21_DepthWithinU32 ==
    DepthReturned /\ ~MulOverflows(call.was.width, call.was.height)
        => DepthAsDescribed

---------------------------------------------------------------------------
(* Properties of the Smooth stroke *)

\* The value a Smooth stroke gives cell c when everything it reads is the
\* grid as it was before the stroke.
SmoothFromBefore(c) ==
    Clamp01(NewVal("Smooth", Before(c), Influence(stroke, c[1], c[2]), 0,
                   sample_avg(before, grid.width, grid.height, c[1], c[2])))

Adjacent(c, d) == Abs(c[1] - d[1]) + Abs(c[2] - d[2]) = 1

\* C22: in a Smooth stroke the 5-tap average of every cell is taken from the
\* copy of the grid made before the stroke wrote anything: each cell's new
\* value is a function of pre-stroke values only, whatever the order in
\* which the cells are visited.
C22_SmoothReadsSnapshot ==
    (brushDone /\ stroke.op = "Smooth") =>
        \A c \in GridCells :
            After(c) = IF c \in BrushCells(grid, stroke)
                         THEN SmoothFromBefore(c) ELSE Before(c)

\* A Smooth stroke changed two adjacent cells: the one visited second had a
\* neighbour already rewritten when its average was taken.
C22_Witness ==
    /\ brushDone
    /\ stroke.op = "Smooth"
    /\ \E c \in ChangedCells, d \in ChangedCells :
         Adjacent(c, d) /\ ~IsNaN(After(c)) /\ ~IsNaN(After(d))

---------------------------------------------------------------------------
(* Properties of abort and start *)

\* Worker k is about to load the abort flag: the head of an iteration i with
\* i % 1000 = 0.
AtPoll(k) ==
    /\ worker[k].at = "top"
    /\ worker[k].i < worker[k].n
    /\ worker[k].i % PollEvery = 0

\* C23 (as claimed): an abort_erosion call made while running is true for a
\* job (after the job's swap, before its loop ended) is not lost: the abort
\* flag is true when the worker next loads it, so erode returns there.
C23_AbortNotLost ==
    \A k \in Workers : (AtPoll(k) /\ worker[k].pendingAbort) => erosion_abort

\* The same for the polls after the first: an abort_erosion call made since
\* the worker's previous poll.
C23_AbortInLoopNotLost ==
    \A k \in Workers :
        (AtPoll(k) /\ worker[k].pendingAbort /\ worker[k].i > 0) => erosion_abort

\* C24: a stale abort never cancels a later job: when abort_erosion has not
\* run since the job's swap, the abort flag is false once the start has
\* stored false (before the worker is spawned) and when the worker makes its
\* first poll.
C24_StaleAbortCleared ==
    /\ \A c \in Callers :
         (pc[c].at = "hyd_spawn" /\ pc[c].h = 0) => ~erosion_abort
    /\ \A k \in Workers :
         (AtPoll(k) /\ worker[k].i = 0 /\ ~worker[k].pendingAbort)
             => ~erosion_abort

\* A start whose swap found the abort flag still set by an earlier
\* abort_erosion has stored false and is about to spawn its worker.
C24_Witness ==
    \E c \in Callers :
        /\ pc[c].at = "hyd_spawn"
        /\ pc[c].w = 1
        /\ pc[c].h = 0
        /\ ~erosion_abort

\* A step of caller c's rejected start: the swap that finds running = true,
\* or the return of the error.
RejectedStep(c) ==
    \/ SwapStep(c) /\ erosion_running
    \/ pc[c].at = "hyd_err" /\ pc'[c] # pc[c]

\* C25: a rejected start has no effect: its swap leaves running true, and
\* neither the swap nor the return of the 'already running' error changes
\* the abort flag (a pending abort stays set), a worker, the mutex or the
\* grid.
C25_RejectedStartNoEffect ==
    [][\A c \in Callers :
         /\ (SwapStep(c) /\ erosion_running) => erosion_running'
         /\ RejectedStep(c) =>
              UNCHANGED <<erosion_running, erosion_abort, worker, mutex, hm>>
      ]_vars

\* A start was rejected while the job in flight has an abort pending that
\* its worker has not polled yet: the flag is still set.
C25_Witness ==
    \E c \in Callers, k \in Workers :
        /\ pc[c].at = "hyd_err"
        /\ InLoop(k)
        /\ worker[k].pendingAbort
        /\ erosion_abort
        /\ erosion_running

---------------------------------------------------------------------------
(* Properties of the worker and the grid mutex *)

\* Caller c issues a grid command and takes the mutex in this step.
CommandLocks(c) == pc[c].at = "idle" /\ pc'[c].at = "crit"

\* C26 (as claimed): once run_hydraulic_erosion has returned Ok the spawned
\* worker is the next holder of the grid mutex: while the worker has not
\* taken the mutex yet, no command issued after the start returned takes it.
C26_WorkerIsNextHolder ==
    [][\A k \in Workers :
         worker[k].at = "spawned" => \A c \in Callers : ~CommandLocks(c)
      ]_vars

\* Once the worker holds the mutex no command takes it until erode has
\* returned and the guard is dropped.
C26_NoCommandWhileWorkerHolds ==
    [][\A k \in Workers :
         worker[k].at \in {"top", "drop", "ret"} =>
             \A c \in Callers : ~CommandLocks(c)
      ]_vars

=============================================================================
